---- MODULE Spec2Model ----
(***************************************************************************)
(* The traversal engine of flurry's concurrent hash table                  *)
(* (src/iter/traverser.rs): NodeIter walks a table whose bins may be       *)
(* forwarding markers (BinEntry::Moved) into a larger table, using a       *)
(* stack of TableStack frames to resume the table it left.                 *)
(*                                                                         *)
(* Tables are numbered 1..NumTables; table 0 stands for "no table"         *)
(* (Shared::null / Option::None).  Nodes are numbered from 1; node 0       *)
(* stands for "no node".  A pointer to a BinEntry is a record [tag, ref]:  *)
(* null, a Node (ref = node number) or a Moved (ref = target table).       *)
(***************************************************************************)
EXTENDS Integers, Sequences, FiniteSets, TLC

\* ------------------------------------------------------------------ bounds
\* Bin count of the table the traversal is constructed on.
BaseLen == 2
\* Number of table generations after the first one.
MaxGen == 2
\* Number of Node objects that are ever allocated.
MaxNodes == 3
\* Number of forwarding markers that are ever installed.
MaxMoved == 3
\* Number of advance calls made after exhaustion was first signalled.
MaxExtraCalls == 1
\* Bin count of the forwarded-from table of the forwarding scenario.
FwLen == 4
\* Number of distinct keys the writers use.
NumKeys == 2
\* Number of steps the writers take.
MaxWrites == 4
\* Number of markers of a configuration whose markers may skip tables.
MaxSkipMoved == 3

NumTables == MaxGen + 1
Tables == 1..NumTables
Keys == 0..(NumKeys - 1)

RECURSIVE Pow2(_)
Pow2(k) == IF k = 0 THEN 1 ELSE 2 * Pow2(k - 1)

\* Bin count of generation t when every resize doubles.
DoubledLen(t) == BaseLen * Pow2(t - 1)

\* ------------------------------------------------------------ entry model
NullPtr == [tag |-> "Null", ref |-> 0]
NodePtr(id) == [tag |-> "Node", ref |-> id]
MovedPtr(t) == [tag |-> "Moved", ref |-> t]

VARIABLES
    bins,        \* bins[t][i]: the pointer in slot i of table t (Table::bins)
    nodes,       \* nodes[id]: [key, next] of the id-th Node allocated
    table,       \* NodeIter::table (0 = None)
    stack,       \* NodeIter::stack, top frame first
    spare,       \* NodeIter::spare, most recently popped frame first
    prev,        \* NodeIter::prev (0 = None)
    index,       \* NodeIter::index
    base_index,  \* NodeIter::base_index
    base_limit,  \* NodeIter::base_limit
    base_size,   \* NodeIter::base_size
    pc,          \* "build", "idle" (between advance calls), "loop", "abort"
    log,         \* history: the bin reads and results of the traversal
    frames,      \* history: number of TableStack boxes allocated
    max_depth,   \* history: greatest stack depth reached
    live,        \* writers: the keys that are in the map
    moving,      \* writers: the bins copied to the next table, not yet forwarded
    writes,      \* writers: number of steps taken
    stable       \* history: the keys in the map ever since new()

vars == <<bins, nodes, table, stack, spare, prev, index, base_index,
          base_limit, base_size, pc, log, frames, max_depth, live, moving,
          writes, stable>>

iter == <<table, stack, spare, prev, index, base_index, base_limit, base_size>>
heap == <<bins, nodes>>
hist == <<log, frames, max_depth>>
wr == <<live, moving, writes>>

\* t.bins.len()
BinsLen(t) == Cardinality(DOMAIN bins[t])

\* t.bin(i, guard): the atomic load of slot i
Bin(t, i) == bins[t][i]

\* ---------------------------------------------------------------- history
ReadEv(t, i) == [ev |-> "read", a |-> t, b |-> i]
YieldEv(n) == [ev |-> "yield", a |-> n, b |-> 0]
EndEv == [ev |-> "end", a |-> 0, b |-> 0]

NumEnds == Cardinality({k \in DOMAIN log : log[k].ev = "end"})
NumMoved == Cardinality({p \in {<<t, i>> : t \in Tables, i \in 0..(DoubledLen(NumTables) - 1)} :
                            p[2] \in DOMAIN bins[p[1]] /\ bins[p[1]][p[2]].tag = "Moved"})

\* --------------------------------------------------- frame stack and pool
Frame(t, i, n) == [table |-> t, length |-> n, index |-> i]

\* push_state with the index and the length of the frame exchanged.
push_state_swapped(t, i, n) ==
    [stack  |-> <<Frame(t, n, i)>> \o stack,
     spare  |-> IF spare = <<>> THEN <<>> ELSE Tail(spare),
     frames |-> IF spare = <<>> THEN frames + 1 ELSE frames]

\* push_state that never looks at the spare list.
push_state_alloc(t, i, n) ==
    [stack  |-> <<Frame(t, i, n)>> \o stack,
     spare  |-> spare,
     frames |-> frames + 1]

\* NodeIter::push_state: reuse the first spare frame if there is one, else
\* allocate; the frame becomes the new top of the stack.
push_state(t, i, n) ==
    [stack  |-> <<Frame(t, i, n)>> \o stack,
     spare  |-> IF spare = <<>> THEN <<>> ELSE Tail(spare),
     frames |-> IF spare = <<>> THEN frames + 1 ELSE frames]

\* The loop without "n = s.length" when a frame is popped.
RECURSIVE recover_loop_keep_n(_, _, _, _, _)
recover_loop_keep_n(idx, tb, stk, spr, n) ==
    IF stk = <<>>
    THEN [index |-> idx, table |-> tb, stack |-> stk, spare |-> spr, n |-> n]
    ELSE LET s == Head(stk) IN
         IF idx + s.length < n
         THEN [index |-> idx + s.length, table |-> tb, stack |-> stk,
               spare |-> spr, n |-> n]
         ELSE recover_loop_keep_n(s.index, s.table, Tail(stk), <<s>> \o spr, n)

\* The loop that always pops and never moves on to the high side of a bin.
RECURSIVE recover_loop_pop(_, _, _, _, _)
recover_loop_pop(idx, tb, stk, spr, n) ==
    IF stk = <<>>
    THEN [index |-> idx, table |-> tb, stack |-> stk, spare |-> spr, n |-> n]
    ELSE LET s == Head(stk) IN
         recover_loop_pop(s.index, s.table, Tail(stk), <<s>> \o spr, s.length)

\* The loop with "<=" for "<" in the test of the high side.
RECURSIVE recover_loop_le(_, _, _, _, _)
recover_loop_le(idx, tb, stk, spr, n) ==
    IF stk = <<>>
    THEN [index |-> idx, table |-> tb, stack |-> stk, spare |-> spr, n |-> n]
    ELSE LET s == Head(stk) IN
         IF idx + s.length <= n
         THEN [index |-> idx + s.length, table |-> tb, stack |-> stk,
               spare |-> spr, n |-> n]
         ELSE recover_loop_le(s.index, s.table, Tail(stk), <<s>> \o spr, s.length)

\* The while-let loop of NodeIter::recover_state.
RECURSIVE recover_loop(_, _, _, _, _)
recover_loop(idx, tb, stk, spr, n) ==
    IF stk = <<>>
    THEN [index |-> idx, table |-> tb, stack |-> stk, spare |-> spr, n |-> n]
    ELSE LET s == Head(stk) IN
         IF idx + s.length < n
         THEN [index |-> idx + s.length, table |-> tb, stack |-> stk,
               spare |-> spr, n |-> n]
         ELSE recover_loop(s.index, s.table, Tail(stk), <<s>> \o spr, s.length)

\* recover_state whose top-level advance does not look at the stack.
recover_state_any(n) ==
    LET r == recover_loop(index, table, stack, spare, n)
        top == r.index + base_size
    IN  IF top >= r.n
        THEN [index |-> base_index + 1, table |-> r.table, stack |-> r.stack,
              spare |-> r.spare, base_index |-> base_index + 1]
        ELSE [index |-> IF r.stack # <<>> THEN r.index ELSE top,
              table |-> r.table, stack |-> r.stack,
              spare |-> r.spare, base_index |-> base_index]

\* NodeIter::recover_state
recover_state(n) ==
    LET r == recover_loop(index, table, stack, spare, n)
        top == r.index + base_size
    IN  IF r.stack # <<>>
        THEN [index |-> r.index, table |-> r.table, stack |-> r.stack,
              spare |-> r.spare, base_index |-> base_index]
        ELSE IF top >= r.n
        THEN [index |-> base_index + 1, table |-> r.table, stack |-> r.stack,
              spare |-> r.spare, base_index |-> base_index + 1]
        ELSE [index |-> top, table |-> r.table, stack |-> r.stack,
              spare |-> r.spare, base_index |-> base_index]

\* The cursor advance at the end of one iteration of the loop of next().
advance_cursor(i, n) ==
    IF stack # <<>>
    THEN recover_state(n)
    ELSE IF i + base_size >= n
    THEN [index |-> base_index + 1, table |-> table, stack |-> stack,
          spare |-> spare, base_index |-> base_index + 1]
    ELSE [index |-> i + base_size, table |-> table, stack |-> stack,
          spare |-> spare, base_index |-> base_index]

\* The termination test at the head of the loop of next().
Exhausted ==
    \/ base_index >= base_limit
    \/ table = 0
    \/ BinsLen(table) <= index

\* ------------------------------------------------------------- operations
\* new() that takes the length of the first table also for a null table.
New_len(tb) ==
    /\ pc = "build"
    /\ table' = tb
    /\ stack' = <<>>
    /\ spare' = <<>>
    /\ prev' = 0
    /\ base_size' = BinsLen(1)
    /\ base_index' = 0
    /\ index' = 0
    /\ base_limit' = BinsLen(1)
    /\ pc' = "idle"
    /\ stable' = live
    /\ UNCHANGED <<heap, hist, wr>>

\* NodeIter::new on a null or non-null table
New(tb) ==
    /\ pc = "build"
    /\ table' = tb
    /\ stack' = <<>>
    /\ spare' = <<>>
    /\ prev' = 0
    /\ base_size' = IF tb = 0 THEN 0 ELSE BinsLen(tb)
    /\ base_index' = 0
    /\ index' = 0
    /\ base_limit' = IF tb = 0 THEN 0 ELSE BinsLen(tb)
    /\ pc' = "idle"
    /\ stable' = live
    /\ UNCHANGED <<heap, hist, wr>>

\* A successor load that finds nothing.
successor_none(p) == NullPtr

\* prev.next.load(..) when there is a previous node
successor(p) == IF p # 0 THEN nodes[p].next ELSE NullPtr

\* Entry of next() without the expect: a successor that is not a Node is
\* taken for no successor.
NextBegin_unchecked ==
    /\ pc = "idle"
    /\ NumEnds <= MaxExtraCalls
    /\ LET next == successor(prev) IN
       IF next.tag = "Node"
       THEN /\ prev' = next.ref
            /\ log' = Append(log, YieldEv(next.ref))
            /\ pc' = "idle"
       ELSE /\ pc' = "loop"
            /\ UNCHANGED <<prev, log>>
    /\ UNCHANGED <<heap, table, stack, spare, index, base_index, base_limit,
                   base_size, frames, max_depth, wr, stable>>

\* Entry of next(): the chain continuation through prev.next.
NextBegin ==
    /\ pc = "idle"
    /\ NumEnds <= MaxExtraCalls
    /\ LET next == successor(prev) IN
       CASE next.tag = "Node" ->
              /\ prev' = next.ref
              /\ log' = Append(log, YieldEv(next.ref))
              /\ pc' = "idle"
         [] next.tag = "Moved" ->
              /\ pc' = "abort"
              /\ UNCHANGED <<prev, log>>
         [] OTHER ->
              /\ pc' = "loop"
              /\ UNCHANGED <<prev, log>>
    /\ UNCHANGED <<heap, table, stack, spare, index, base_index, base_limit,
                   base_size, frames, max_depth, wr, stable>>

\* The end of the traversal that goes round the loop again.
SignalEnd_spin ==
    /\ pc' = "loop"
    /\ UNCHANGED <<prev, log, table, stack, spare, index, base_index, frames,
                   max_depth>>

\* The end of the traversal that leaves prev as it is.
SignalEnd_keep_prev ==
    /\ prev' = prev
    /\ pc' = "idle"
    /\ log' = Append(log, EndEv)
    /\ UNCHANGED <<table, stack, spare, index, base_index, frames, max_depth>>

\* The loop of next() returns None.
SignalEnd ==
    /\ prev' = 0
    /\ pc' = "idle"
    /\ log' = Append(log, EndEv)
    /\ UNCHANGED <<table, stack, spare, index, base_index, frames, max_depth>>

\* The loop of next() loads the bin at the cursor, and dives into the target
\* of a marker or advances the cursor and, at a chain, returns its head.
ResolveBin ==
    LET t == table
        i == index
        n == BinsLen(t)
        bin == Bin(t, i)
    IN  IF bin.tag = "Moved"
        THEN LET p == push_state(t, i, n) IN
             /\ table' = bin.ref
             /\ prev' = 0
             /\ stack' = p.stack
             /\ spare' = p.spare
             /\ frames' = p.frames
             /\ max_depth' = IF Len(p.stack) > max_depth
                             THEN Len(p.stack) ELSE max_depth
             /\ pc' = "loop"
             /\ log' = Append(log, ReadEv(t, i))
             /\ UNCHANGED <<index, base_index>>
        ELSE LET c == advance_cursor(i, n) IN
             /\ table' = c.table
             /\ index' = c.index
             /\ stack' = c.stack
             /\ spare' = c.spare
             /\ base_index' = c.base_index
             /\ UNCHANGED <<frames, max_depth>>
             /\ IF bin.tag = "Node"
                THEN /\ prev' = bin.ref
                     /\ pc' = "idle"
                     /\ log' = Append(Append(log, ReadEv(t, i)),
                                      YieldEv(bin.ref))
                ELSE /\ prev' = prev
                     /\ pc' = "loop"
                     /\ log' = Append(log, ReadEv(t, i))

\* One iteration of the loop of next(), entered with no candidate entry.
LoopStep ==
    /\ pc = "loop"
    /\ IF Exhausted THEN SignalEnd ELSE ResolveBin
    /\ UNCHANGED <<heap, base_limit, base_size, wr, stable>>

\* ------------------------------------------- building a table configuration
\* Slot i of table t is read by a traversal from table 1: it is a bin of
\* table 1 or lies, at a multiple of the holder's length, above a marker.
Reachable(t, i) ==
    \/ t = 1
    \/ \E s \in Tables : \E j \in DOMAIN bins[s] :
          /\ bins[s][j] = MovedPtr(t)
          /\ i >= j
          /\ (i - j) % BinsLen(s) = 0

\* Node { key, next: Atomic::null(), .. }
NewNode(k) == [key |-> k, next |-> NullPtr]

RECURSIVE ChainLast(_)
ChainLast(id) ==
    IF nodes[id].next.tag = "Node" THEN ChainLast(nodes[id].next.ref) ELSE id

\* No chain starts in a slot after slot i of table t (tables in order, then
\* indices): nodes are numbered in the order of the slots they are stored in,
\* so that one configuration is not built once per numbering of its nodes.
LastChain(t, i) ==
    \A s \in Tables : \A j \in DOMAIN bins[s] :
        bins[s][j].tag = "Node" => (s < t \/ (s = t /\ j <= i))

\* A new Node (next = null) is stored in an empty bin or linked at the end of
\* the bin's chain.
PlaceNode(t, i) ==
    /\ pc = "build"
    /\ Len(nodes) < MaxNodes
    /\ Reachable(t, i)
    /\ LastChain(t, i)
    /\ bins[t][i].tag # "Moved"
    /\ LET id == Len(nodes) + 1 IN
       IF bins[t][i].tag = "Null"
       THEN /\ bins' = [bins EXCEPT ![t][i] = NodePtr(id)]
            /\ nodes' = Append(nodes, NewNode(id))
       ELSE /\ bins' = bins
            /\ nodes' = Append([nodes EXCEPT
                                  ![ChainLast(bins[t][i].ref)].next = NodePtr(id)],
                               NewNode(id))
    /\ UNCHANGED <<iter, pc, hist, wr, stable>>

\* An empty bin of table t becomes a forwarding marker to table u.
PlaceMoved(t, i, u) ==
    /\ pc = "build"
    /\ NumMoved < MaxMoved
    /\ Reachable(t, i)
    /\ bins[t][i].tag = "Null"
    /\ bins' = [bins EXCEPT ![t][i] = MovedPtr(u)]
    /\ UNCHANGED <<nodes, iter, pc, hist, wr, stable>>

InitIter ==
    /\ table = 0
    /\ stack = <<>>
    /\ spare = <<>>
    /\ prev = 0
    /\ index = 0
    /\ base_index = 0
    /\ base_limit = 0
    /\ base_size = 0
    /\ pc = "build"
    /\ log = <<>>
    /\ frames = 0
    /\ max_depth = 0
    /\ live = {}
    /\ moving = {}
    /\ writes = 0
    /\ stable = {}

\* ------------------------------------------------------------------ Spec
\* A fixed configuration of tables in which every resize doubles, built
\* before the traversal is constructed and left alone afterwards.
Init ==
    /\ bins = [t \in Tables |-> [i \in 0..(DoubledLen(t) - 1) |-> NullPtr]]
    /\ nodes = <<>>
    /\ InitIter

BuildNode == \E t \in Tables : \E i \in DOMAIN bins[t] : PlaceNode(t, i)
BuildMoved == \E t \in 1..(NumTables - 1) : \E i \in DOMAIN bins[t] :
                 PlaceMoved(t, i, t + 1)
Construct == \E tb \in {0, 1} : New(tb)

Next ==
    \/ BuildNode
    \/ BuildMoved
    \/ Construct
    \/ NextBegin
    \/ LoopStep

Spec == Init /\ [][Next]_vars

\* ---------------------------------------------------------------- SpecFw
\* The scenario of tests::iter_fw: bins k.. of table 1 are markers to table 2,
\* which has as many bins as table 1 or twice as many and holds one entry,
\* at an index j of the forwarded range.
FwBins(len2, k, j) ==
    [t \in Tables |->
        IF t = 1
        THEN [i \in 0..(FwLen - 1) |-> IF i >= k THEN MovedPtr(2) ELSE NullPtr]
        ELSE IF t = 2
        THEN [i \in 0..(len2 - 1) |-> IF i = j THEN NodePtr(1) ELSE NullPtr]
        ELSE [i \in 0..(2 * len2 - 1) |-> NullPtr]]

InitFw ==
    /\ \E len2 \in {FwLen, 2 * FwLen} : \E k \in 0..(FwLen - 1) :
          \E j \in k..(FwLen - 1) : bins = FwBins(len2, k, j)
    /\ nodes = <<NewNode(1)>>
    /\ InitIter

NextFw ==
    \/ Construct
    \/ NextBegin
    \/ LoopStep

SpecFw == InitFw /\ [][NextFw]_vars

\* -------------------------------------------------------------- SpecSkip
\* Fixed configurations in which the target of a marker is any later table:
\* it has at least twice the bins of the table that holds the marker.
BuildSkip ==
    /\ NumMoved < MaxSkipMoved
    /\ \E t \in 1..(NumTables - 1) : \E i \in DOMAIN bins[t] :
          \E u \in (t + 1)..NumTables : PlaceMoved(t, i, u)

\* One entry, as in tests::iter_fw.
BuildSkipNode == nodes = <<>> /\ BuildNode

NextSkip ==
    \/ BuildSkipNode
    \/ BuildSkip
    \/ Construct
    \/ NextBegin
    \/ LoopStep

SpecSkip == Init /\ [][NextSkip]_vars

\* ------------------------------------------------------------- SpecShort
\* The scenario of tests::iter_fw with a target that a defect has left no
\* longer than the table holding the markers: table 2 has from one bin up to
\* as many bins as table 1, and holds one entry.
InitShort ==
    /\ \E len2 \in 1..FwLen : \E k \in 0..(FwLen - 1) :
          \E j \in 0..(len2 - 1) : bins = FwBins(len2, k, j)
    /\ nodes = <<NewNode(1)>>
    /\ InitIter

SpecShort == InitShort /\ [][NextFw]_vars

\* ------------------------------------------------------------ SpecBroken
\* Configurations of table 1 that a defect elsewhere has corrupted: the last
\* node of a chain may have a forwarding marker for its successor.
PlaceBadLink(id) ==
    /\ pc = "build"
    /\ nodes[id].next.tag = "Null"
    /\ nodes' = [nodes EXCEPT ![id].next = MovedPtr(NumTables)]
    /\ UNCHANGED <<bins, iter, pc, hist, wr, stable>>

BuildBase == \E i \in DOMAIN bins[1] : PlaceNode(1, i)
BuildBadLink == \E id \in DOMAIN nodes : PlaceBadLink(id)

NextBroken ==
    \/ BuildBase
    \/ BuildBadLink
    \/ Construct
    \/ NextBegin
    \/ LoopStep

SpecBroken == Init /\ [][NextBroken]_vars

\* ---------------------------------------------------------------- writers
\* The writers of the table (insert, remove, migration of a bin to the
\* doubled table), which the traversal runs against.  The hash sends keys
\* 0 and 1 to the same bin of the first table and to different bins of the
\* doubled one; the bin of a key is its hash modulo the bin count.
Hash(k) == (k % 2) * BaseLen + (k \div 2)
BinOf(t, k) == Hash(k) % BinsLen(t)

\* The bin a writer finds for key k, following forwarding markers.
RECURSIVE Locate(_, _)
Locate(t, k) ==
    IF bins[t][BinOf(t, k)].tag = "Moved"
    THEN Locate(bins[t][BinOf(t, k)].ref, k)
    ELSE <<t, BinOf(t, k)>>

\* The nodes of the chain at pointer p, head first.
RECURSIVE ChainFrom(_)
ChainFrom(p) ==
    IF p.tag = "Node" THEN <<p.ref>> \o ChainFrom(nodes[p.ref].next) ELSE <<>>

\* A key that is not in the map is stored in a new Node, which becomes the
\* head of an empty bin or the last node of the bin's chain.
Insert(k) ==
    /\ writes < MaxWrites
    /\ k \notin live
    /\ Locate(1, k) \notin moving
    /\ LET p == Locate(1, k)
           id == Len(nodes) + 1
       IN  IF bins[p[1]][p[2]].tag = "Null"
           THEN /\ bins' = [bins EXCEPT ![p[1]][p[2]] = NodePtr(id)]
                /\ nodes' = Append(nodes, NewNode(k))
           ELSE /\ bins' = bins
                /\ nodes' = Append([nodes EXCEPT
                               ![ChainLast(bins[p[1]][p[2]].ref)].next = NodePtr(id)],
                               NewNode(k))
    /\ live' = live \cup {k}
    /\ writes' = writes + 1
    /\ UNCHANGED <<iter, pc, hist, moving, stable>>

\* The Node of a key that is in the map is unlinked from its chain; the
\* unlinked Node keeps its own successor link.
Remove(k) ==
    /\ writes < MaxWrites
    /\ k \in live
    /\ Locate(1, k) \notin moving
    /\ LET p == Locate(1, k)
           ch == ChainFrom(bins[p[1]][p[2]])
           pos == CHOOSE j \in DOMAIN ch : nodes[ch[j]].key = k
       IN  IF pos = 1
           THEN /\ bins' = [bins EXCEPT ![p[1]][p[2]] = nodes[ch[1]].next]
                /\ nodes' = nodes
           ELSE /\ bins' = bins
                /\ nodes' = [nodes EXCEPT ![ch[pos - 1]].next = nodes[ch[pos]].next]
    /\ live' = live \ {k}
    /\ stable' = stable \ {k}
    /\ writes' = writes + 1
    /\ UNCHANGED <<iter, pc, hist, moving>>

\* New Nodes numbered from base + 1 that hold the keys ks, linked in order.
CopyChain(ks, base) ==
    [j \in 1..Len(ks) |->
        [key |-> ks[j],
         next |-> IF j < Len(ks) THEN NodePtr(base + j + 1) ELSE NullPtr]]

\* First half of the migration of bin i of table t: the entries of its chain
\* are copied into bins i and i + n of the doubled table; the bin stays
\* locked for writers until it is forwarded.
MigrateFill(t, i) ==
    /\ writes < MaxWrites
    /\ Reachable(t, i)
    /\ bins[t][i].tag = "Node"
    /\ <<t, i>> \notin moving
    /\ LET n == BinsLen(t)
           ch == ChainFrom(bins[t][i])
           ks == [j \in DOMAIN ch |-> nodes[ch[j]].key]
           IsLow(k) == BinOf(t + 1, k) = i
           IsHigh(k) == BinOf(t + 1, k) # i
           lo == SelectSeq(ks, IsLow)
           hi == SelectSeq(ks, IsHigh)
           base == Len(nodes)
       IN  /\ nodes' = nodes \o CopyChain(lo, base) \o CopyChain(hi, base + Len(lo))
           /\ bins' = [bins EXCEPT
                 ![t + 1][i] = IF lo = <<>> THEN NullPtr ELSE NodePtr(base + 1),
                 ![t + 1][i + n] = IF hi = <<>> THEN NullPtr
                                   ELSE NodePtr(base + Len(lo) + 1)]
    /\ moving' = moving \cup {<<t, i>>}
    /\ writes' = writes + 1
    /\ UNCHANGED <<iter, pc, hist, live, stable>>

\* Second half: the bin, copied or empty, becomes a forwarding marker to the
\* doubled table, for good.
MigrateForward(t, i) ==
    /\ writes < MaxWrites
    /\ Reachable(t, i)
    /\ <<t, i>> \in moving \/ bins[t][i].tag = "Null"
    /\ bins' = [bins EXCEPT ![t][i] = MovedPtr(t + 1)]
    /\ moving' = moving \ {<<t, i>>}
    /\ writes' = writes + 1
    /\ UNCHANGED <<nodes, iter, pc, hist, live, stable>>

\* -------------------------------------------------------------- SpecConc
\* Writers run before the traversal is constructed and between its steps.
Writer ==
    \/ \E k \in Keys : Insert(k)
    \/ \E k \in Keys : Remove(k)
    \/ \E t \in 1..(NumTables - 1) : \E i \in DOMAIN bins[t] : MigrateFill(t, i)
    \/ \E t \in 1..(NumTables - 1) : \E i \in DOMAIN bins[t] : MigrateForward(t, i)

NextConc ==
    \/ Writer
    \/ New(1)
    \/ NextBegin
    \/ LoopStep

SpecConc == Init /\ [][NextConc]_vars

\* The caller keeps calling next() and a call in progress keeps running.
FairConc == SpecConc /\ WF_vars(NextBegin) /\ WF_vars(LoopStep)

\* ----------------------------------------------------- derived quantities
Range(f) == {f[k] : k \in DOMAIN f}

\* The shadow positions of slot i of table t: the slot itself, or below a
\* marker the positions i, i+L, i+2L, .. of the target, L the holder's length.
RECURSIVE Shadow(_, _)
Shadow(t, i) ==
    IF bins[t][i].tag = "Moved"
    THEN LET u == bins[t][i].ref
             L == BinsLen(t)
         IN  UNION {Shadow(u, j) : j \in {k \in DOMAIN bins[u] :
                                            k >= i /\ (k - i) % L = 0}}
    ELSE {<<t, i>>}

TopShadow == UNION {Shadow(1, i) : i \in DOMAIN bins[1]}
ShadowNodes == UNION {Range(ChainFrom(bins[q[1]][q[2]])) : q \in TopShadow}

IsYield(e) == e.ev = "yield"
\* The node numbers produced so far, in order.
Yielded == [k \in DOMAIN SelectSeq(log, IsYield) |-> SelectSeq(log, IsYield)[k].a]
Count(n) == Cardinality({k \in DOMAIN log : log[k] = YieldEv(n)})
Times(e) == Cardinality({k \in DOMAIN log : log[k] = e})

\* The traversal was constructed on table 1 / on a null table.
OnTable == pc # "build" /\ base_size # 0
OnNull == pc # "build" /\ base_size = 0
\* Some advance call has returned / has signalled exhaustion.
Returned == pc = "idle" /\ log # <<>>
Ended == NumEnds >= 1

\* ------------------------------------------------------------------- C1
\* C1: in a fixed configuration where every marker points to a table of
\* double the bin count, no node of a chain at a shadow position of a
\* top-level bin is produced twice, and once exhaustion has been signalled
\* every such node has been produced exactly once.
C1_StaticExactlyOnce ==
    OnTable =>
        \A n \in ShadowNodes :
            /\ Count(n) <= 1
            /\ Ended => Count(n) = 1

\* A traversal has ended after two nested dives and produced three nodes.
C1_Witness ==
    /\ OnTable /\ Ended
    /\ max_depth >= 2
    /\ Cardinality(ShadowNodes) = 3
    /\ \A n \in ShadowNodes : Count(n) = 1

\* ------------------------------------------------------------------- C2
YieldedKeys == {nodes[Yielded[j]].key : j \in DOMAIN Yielded}

\* C2: with writers (insert, remove, migration of bins) running between the
\* steps of the traversal, every key that has been in the map from before
\* new() until exhaustion is signalled has been produced by then.
C2_WeakConsistency ==
    (OnTable /\ Ended) => stable \subseteq YieldedKeys

\* The traversal has dived and ended, and it produced the Node of a key
\* whose bin was migrated afterwards: the Node it produced is no longer in
\* the chain where a writer finds the key.
C2_Witness ==
    /\ OnTable /\ Ended
    /\ max_depth >= 1
    /\ \E j \in DOMAIN Yielded :
          LET k == nodes[Yielded[j]].key
              q == Locate(1, k)
          IN  /\ k \in stable
              /\ q[1] > 1
              /\ Yielded[j] \notin Range(ChainFrom(bins[q[1]][q[2]]))

\* ------------------------------------------------------------------- C3
AllForwarded == \A i \in DOMAIN bins[1] : bins[1][i] = MovedPtr(2)

\* Log positions at which the traversal has left original bin i: the read of
\* original bin i+1, or the end of the traversal.
LeftBin(i) == {k \in DOMAIN log : log[k] = ReadEv(1, i + 1) \/ log[k] = EndEv}

\* C3: when every bin of a table of n bins is a marker to a table of 2n bins,
\* each entry stored at index i or i+n of the target is produced exactly
\* once, after original bin i is read and before original bin i+1 is read.
C3_ResizeStride ==
    (OnTable /\ AllForwarded) =>
        \A i \in DOMAIN bins[1] : \A x \in {i, i + BinsLen(1)} :
            \A n \in Range(ChainFrom(bins[2][x])) :
                /\ Count(n) <= 1
                /\ \A k \in DOMAIN log : log[k] = YieldEv(n) =>
                      /\ \E r \in 1..k : log[r] = ReadEv(1, i)
                      /\ \A a \in LeftBin(i) : k < a
                /\ LeftBin(i) # {} => Count(n) = 1

\* Both halves of a forwarded bin hold an entry and the traversal has moved
\* on to the next original bin.
C3_Witness ==
    /\ OnTable /\ AllForwarded
    /\ \E i \in DOMAIN bins[1] :
          /\ bins[2][i].tag = "Node"
          /\ bins[2][i + BinsLen(1)].tag = "Node"
          /\ Count(bins[2][i].ref) = 1
          /\ Count(bins[2][i + BinsLen(1)].ref) = 1
          /\ Times(ReadEv(1, i + 1)) = 1

\* ------------------------------------------------------------------- C4
Markers == {b \in DOMAIN bins[1] : bins[1][b].tag = "Moved"}

\* C4: with bins k..m-1 all forwarded to one second table of m or 2m bins
\* that holds a single entry in the forwarded range, each marker is dived
\* through once, the entry is produced exactly once, and exhaustion is
\* signalled after that, with every top-level bin scanned.
C4_Forwarding ==
    OnTable =>
        /\ Count(1) <= 1
        /\ \A b \in Markers : Times(ReadEv(1, b)) <= 1
        /\ Len(Yielded) <= 1
        /\ Ended =>
              /\ Yielded = <<1>>
              /\ \A b \in Markers : Times(ReadEv(1, b)) = 1
              /\ frames = 1
              /\ base_index = base_limit

\* Exhaustion is signalled after diving through every marker of a table all
\* of whose bins forward to a table of the same length.
C4_Witness ==
    /\ OnTable /\ Ended
    /\ Cardinality(Markers) = FwLen
    /\ BinsLen(2) = BinsLen(1)
    /\ Yielded = <<1>>
    /\ \A b \in Markers : Times(ReadEv(1, b)) = 1

\* ------------------------------------------------------------------- C5
\* Table 1 has one populated bin and nothing else.
SingleChain ==
    /\ Cardinality({i \in DOMAIN bins[1] : bins[1][i].tag = "Node"}) = 1
    /\ \A i \in DOMAIN bins[1] : bins[1][i].tag # "Moved"

TheChain == ChainFrom(bins[1][CHOOSE i \in DOMAIN bins[1] : bins[1][i].tag = "Node"])

YieldsBefore(k) == Cardinality({j \in 1..(k - 1) : log[j].ev = "yield"})

\* C5: with a single populated bin holding a chain of k entries, the entries
\* are produced in chain order, each once, and no bin is read after the head
\* has been produced and before the last entry has been.
C5_ChainOrder ==
    (OnTable /\ SingleChain) =>
        /\ Len(Yielded) <= Len(TheChain)
        /\ Yielded = SubSeq(TheChain, 1, Len(Yielded))
        /\ Ended => Yielded = TheChain
        /\ \A k \in DOMAIN log : log[k].ev = "read" =>
              YieldsBefore(k) \in {0, Len(TheChain)}

\* A chain of three entries has been produced and the traversal has ended.
C5_Witness ==
    /\ OnTable /\ SingleChain /\ Ended
    /\ Len(TheChain) = 3
    /\ Yielded = TheChain

\* ------------------------------------------------------------------- C6
FirstEnd == CHOOSE k \in DOMAIN log : log[k] = EndEv /\ \A j \in 1..(k - 1) : log[j] # EndEv

\* C6: once exhaustion has been signalled, whatever the writers do, no later
\* call reads a bin or produces an entry, prev stays none, and no field of
\* the iterator changes any more.
C6_IdempotentEnd ==
    /\ [](Ended => /\ prev = 0
                    /\ \A k \in DOMAIN log : k > FirstEnd => log[k] = EndEv)
    /\ [][Ended => UNCHANGED iter]_vars

\* Exhaustion has been signalled twice although a writer has linked a new
\* Node behind the last Node the traversal produced.
C6_Witness ==
    /\ NumEnds >= 2
    /\ Yielded # <<>>
    /\ nodes[Yielded[Len(Yielded)]].next.tag = "Node"

\* ------------------------------------------------------------------- C7
AllEmpty == \A i \in DOMAIN bins[1] : bins[1][i].tag = "Null"

\* C7: a traversal constructed on a null table or on a table whose bins are
\* all empty produces nothing and its first advance call signals exhaustion;
\* on a null table base_size = base_limit = 0 and no bin is ever read.
C7_EmptyTraversal ==
    /\ (OnTable /\ AllEmpty) =>
          /\ \A k \in DOMAIN log : log[k].ev # "yield"
          /\ Returned => Ended
    /\ (pc # "build" /\ table = 0) =>
          /\ base_size = 0 /\ base_limit = 0
          /\ \A k \in DOMAIN log : log[k].ev = "end"
          /\ Returned => Ended

\* The first advance call has returned on an empty table after reading every
\* bin of it.
C7_Witness ==
    /\ OnTable /\ AllEmpty /\ Returned
    /\ \A i \in DOMAIN bins[1] : Times(ReadEv(1, i)) = 1
    /\ Times(EndEv) = 1

\* The first advance call has returned on a null table.
C7_WitnessNull == OnNull /\ Returned /\ log = <<EndEv>>

\* ------------------------------------------------------------------- C8
\* C8: with finitely many writer steps and every marker pointing to a larger
\* table, every advance call returns and every traversal that is constructed
\* comes to signal exhaustion.
C8_Termination ==
    /\ (pc = "loop") ~> (pc = "idle")
    /\ (pc # "build") ~> Ended

\* Exhaustion is signalled after nested dives, the writers having used up
\* their steps.
C8_Witness ==
    /\ OnTable /\ Ended
    /\ writes = MaxWrites
    /\ max_depth >= 2

\* ------------------------------------------------------------------- C9
\* C9 as stated: between advance calls, once a dive has been taken, the
\* stack is empty exactly when base_index >= base_limit.
C9_Original ==
    (pc = "idle" /\ max_depth >= 1) =>
        (stack = <<>> <=> base_index >= base_limit)

\* C9 amended: whenever base_index >= base_limit the frame stack is empty.
C9_TerminalStackEmpty ==
    (pc # "build" /\ base_index >= base_limit) => stack = <<>>

\* The terminal state is reached after nested dives.
C9_Witness ==
    /\ OnTable
    /\ base_index >= base_limit
    /\ max_depth >= 2
    /\ stack = <<>>

\* ------------------------------------------------------------------ C10
RECURSIVE Reverse(_)
Reverse(q) == IF q = <<>> THEN <<>> ELSE Reverse(Tail(q)) \o <<Head(q)>>

\* C10: the frames on the stack and on the spare list are together as many
\* as the greatest stack depth reached; a frame is allocated only by a push
\* that finds the spare list empty, a push that finds a spare frame takes
\* exactly one, and the frames popped are moved to the spare list.
C10_FramePool ==
    /\ [](Len(stack) + Len(spare) = max_depth /\ frames = max_depth
          /\ Len(spare) <= max_depth)
    /\ [][/\ frames' # frames => (spare = <<>> /\ frames' = frames + 1
                                  /\ Len(stack') = Len(stack) + 1)
          /\ Len(stack') > Len(stack) =>
                (/\ Len(stack') = Len(stack) + 1
                 /\ spare # <<>> => (spare' = Tail(spare) /\ frames' = frames))
          /\ Len(stack') < Len(stack) =>
                LET k == Len(stack) - Len(stack') IN
                /\ stack' = SubSeq(stack, k + 1, Len(stack))
                /\ spare' = Reverse(SubSeq(stack, 1, k)) \o spare]_vars

\* A second dive reuses the frame the first one left on the spare list, and
\* a nested dive has been taken as well.
C10_Witness ==
    /\ max_depth = 2
    /\ Len(stack) = 1
    /\ Len(spare) = 1
    /\ Times(ReadEv(1, 1)) = 1

\* ------------------------------------------------------------------ C11
\* The call of next() that is about to start finds a forwarding marker as the
\* successor of the node returned last.
BadSuccessor == pc = "idle" /\ prev # 0 /\ nodes[prev].next.tag = "Moved"

\* C11: a call of next() that finds a forwarding marker as the successor of
\* the previously returned node ends in the abort state: it returns no entry,
\* signals no exhaustion, reads no bin, leaves the iterator as it was, and
\* nothing runs after the abort, the bin-resolution loop included.
C11_FatalSuccessor ==
    /\ [][BadSuccessor => (/\ pc' = "abort"
                           /\ log' = log
                           /\ UNCHANGED iter)]_vars
    /\ [][pc = "abort" => (pc' = "abort" /\ UNCHANGED <<iter, log>>)]_vars
    /\ [](pc = "abort" => (prev # 0 /\ nodes[prev].next.tag = "Moved"))

\* The abort happens at the end of a chain of two entries, after both were
\* returned.
C11_Witness ==
    /\ pc = "abort"
    /\ Len(Yielded) = 2
    /\ log[Len(log)].ev = "yield"
    /\ NumEnds = 0

\* ------------------------------------------------------------------ C12
\* A marker of the table the traversal was constructed on points to a table
\* with no more bins than that table.
ShortTarget ==
    \E i \in DOMAIN bins[1] :
        bins[1][i].tag = "Moved" /\ BinsLen(bins[1][i].ref) <= BinsLen(1)

\* C12: when the target of a forwarding marker has no more bins than the
\* table holding the marker, next() never returns None while top-level bins
\* remain unscanned: an end of traversal is signalled only with
\* base_index >= base_limit.
C12_NoSilentEnd ==
    (OnTable /\ ShortTarget /\ Ended) => base_index >= base_limit

\* ------------------------------------------------------------------ C13
\* The loop of next() is about to advance the cursor with frames on the
\* stack: the bin at the cursor is not a marker, so recover_state runs.
RecoverStep ==
    /\ pc = "loop"
    /\ ~Exhausted
    /\ stack # <<>>
    /\ Bin(table, index).tag # "Moved"

\* C13: recover_state, entered with top frame (t, j, L), cursor c and current
\* length n.  If c + L < n the cursor becomes c + L and stack, table and
\* base_index stay.  Otherwise the top frame is popped, the table becomes t,
\* the cursor j and n becomes L, and the test is repeated against the next
\* frame: k >= 1 frames are popped, each one after the first because the test
\* failed against it, and the pops stop at the first frame that passes.  Only
\* with the stack empty does the cursor advance by base_size and, if the
\* result is >= n, base_index goes up by one with the cursor set to it.
C13_FrameRecovery ==
    [][RecoverStep =>
        LET L == Head(stack).length
            n == BinsLen(table)
        IN  IF index + L < n
            THEN /\ index' = index + L
                 /\ UNCHANGED <<stack, table, base_index>>
            ELSE LET k == Len(stack) - Len(stack') IN
                 /\ k >= 1
                 /\ stack' = SubSeq(stack, k + 1, Len(stack))
                 /\ table' = stack[k].table
                 /\ \A m \in 2..k :
                       stack[m - 1].index + stack[m].length >= stack[m - 1].length
                 /\ IF stack' # <<>>
                    THEN /\ stack[k].index + stack[k + 1].length < stack[k].length
                         /\ index' = stack[k].index + stack[k + 1].length
                         /\ base_index' = base_index
                    ELSE LET top == stack[k].index + base_size IN
                         IF top >= stack[k].length
                         THEN /\ base_index' = base_index + 1
                              /\ index' = base_index'
                         ELSE /\ index' = top
                              /\ base_index' = base_index]_vars

\* One recovery has popped two frames: the last slot read is in the third
\* table, under two dives, and the stack is empty.
C13_Witness ==
    /\ pc = "loop"
    /\ stack = <<>>
    /\ Len(spare) = 2
    /\ log # <<>>
    /\ log[Len(log)].ev = "read"
    /\ log[Len(log)].a = 3

\* One recovery has moved to the high side of a split bin and kept its frame.
C13_WitnessStay ==
    /\ pc = "loop"
    /\ Len(stack) = 1
    /\ log # <<>>
    /\ log[Len(log)] = ReadEv(2, 0)
    /\ index = BinsLen(1)

\* ------------------------------------------------------------------ C14
\* The loop of next() is about to read a forwarding marker.
DiveStep ==
    /\ pc = "loop"
    /\ ~Exhausted
    /\ Bin(table, index).tag = "Moved"

\* Event k of the log is the read of a slot that holds a forwarding marker.
MarkerRead(k) ==
    /\ log[k].ev = "read"
    /\ bins[log[k].a][log[k].b].tag = "Moved"

\* C14: the read of a forwarding marker in slot i of table t of n bins sets
\* the table to the marker's target, clears prev, pushes exactly the frame
\* (t, i, n) on the stack, leaves index, base_index, base_limit and base_size
\* as they were and returns no entry: the call goes round the loop, and the
\* next slot it reads is slot i of the target.
C14_Dive ==
    /\ [][DiveStep =>
            /\ table' = Bin(table, index).ref
            /\ prev' = 0
            /\ stack' = <<Frame(table, index, BinsLen(table))>> \o stack
            /\ UNCHANGED <<index, base_index, base_limit, base_size>>
            /\ log' = Append(log, ReadEv(table, index))
            /\ pc' = "loop"]_vars
    /\ [](\A k \in DOMAIN log :
            MarkerRead(k) =>
                LET target == bins[log[k].a][log[k].b].ref IN
                IF k < Len(log)
                THEN log[k + 1] = ReadEv(target, log[k].b)
                ELSE /\ pc = "loop"
                     /\ ~Exhausted
                     /\ table = target
                     /\ index = log[k].b)

\* A dive from a nested table at a slot other than 0 has been followed by
\* the read of the same slot of its target.
C14_Witness ==
    \E k \in DOMAIN log :
        /\ MarkerRead(k)
        /\ log[k].a = 2
        /\ log[k].b > 0
        /\ k < Len(log)
        /\ log[k + 1] = ReadEv(3, log[k].b)
        /\ Len(stack) = 2

\* ------------------------------------------------------------------ C15
\* The call of next() that is about to start finds a chain entry as the
\* successor of the node returned last.
ChainStep == pc = "idle" /\ prev # 0 /\ nodes[prev].next.tag = "Node"

\* C15: a call of next() that finds a chain entry as the successor of the
\* previously returned node returns that successor and changes only prev:
\* table, index, base_index, stack and spare (and the limits and the count of
\* frames allocated) are unchanged, and no bin is read during the call.
C15_ChainFastPath ==
    [][ChainStep =>
          /\ prev' = nodes[prev].next.ref
          /\ log' = Append(log, YieldEv(nodes[prev].next.ref))
          /\ pc' = "idle"
          /\ UNCHANGED <<table, index, base_index, stack, spare, base_limit,
                         base_size, frames, max_depth>>]_vars

\* Inside a dive, the second entry of a chain has been returned right after
\* the first, with no read in between.
C15_Witness ==
    /\ pc = "idle"
    /\ stack # <<>>
    /\ Len(log) >= 2
    /\ log[Len(log)].ev = "yield"
    /\ log[Len(log) - 1].ev = "yield"
    /\ prev = log[Len(log)].a

\* ------------------------------------------------------------------ C16
\* The number of times an entry of key k has been returned.
KeyCount(k) ==
    Cardinality({j \in DOMAIN log : log[j].ev = "yield" /\ nodes[log[j].a].key = k})

\* C16 says that some interleaving of the traversal with the migration of a
\* bin returns twice an entry that is in the map throughout.  That is a
\* statement that a behaviour exists; what can be checked of all behaviours
\* is its negation: no key that has been in the map since new() is returned
\* more than once.
C16_NoDuplicate ==
    \A k \in stable : KeyCount(k) <= 1

\* A key that has been in the map throughout was returned, once, from a Node
\* of a bin that was migrated afterwards, and the traversal has ended.
C16_Raced ==
    /\ OnTable /\ Ended
    /\ \E k \in stable :
          /\ KeyCount(k) = 1
          /\ Locate(1, k)[1] > 1
          /\ \E j \in DOMAIN Yielded :
                /\ nodes[Yielded[j]].key = k
                /\ Yielded[j] \notin
                      Range(ChainFrom(bins[Locate(1, k)[1]][Locate(1, k)[2]]))

\* ------------------------------------------------------------------ C17
\* The table NodeIter::new was given.
BaseTable == IF base_size = 0 THEN 0 ELSE 1

\* The step is an iteration of the loop of next() that reads a slot and
\* advances the cursor with the stack empty, at once or after the pops of
\* recover_state.
TopAdvance ==
    /\ pc = "loop"
    /\ Len(log') > Len(log)
    /\ log'[Len(log) + 1].ev = "read"
    /\ stack' = <<>>

\* C17: whenever the stack is empty at the head of the loop or between calls,
\* the current table is the table the traversal was constructed on and
\* index = base_index; every cursor advance made with the stack empty takes
\* the "next top-level bin" branch, which adds exactly one to base_index and
\* sets the cursor to it; base_index changes at no other time, and so never
\* decreases.
C17_TopLevelPosition ==
    /\ []((pc \in {"idle", "loop"} /\ stack = <<>>) =>
            (table = BaseTable /\ index = base_index))
    /\ [][TopAdvance =>
            (base_index' = base_index + 1 /\ index' = base_index')]_vars
    /\ [][base_index' # base_index =>
            (TopAdvance /\ base_index' = base_index + 1)]_vars

\* The traversal is back at the top level after a nested dive, with bins of
\* the first table still to scan.
C17_Witness ==
    /\ pc \in {"idle", "loop"}
    /\ stack = <<>>
    /\ max_depth >= 2
    /\ base_index >= 1
    /\ base_index < base_limit
    /\ index = base_index

\* ------------------------------------------------------------------ C18
\* C18: with every marker's target at least twice as long as its holder, and
\* writers running or not, in every state with base_index < base_limit the
\* cursor is inside the current table; every slot read was inside its table;
\* base_index never exceeds base_limit; and the end of the traversal of a
\* table that is not absent is signalled only with base_index = base_limit.
C18_NoPrematureEnd ==
    /\ (pc \in {"idle", "loop"} /\ table # 0 /\ base_index < base_limit) =>
          index < BinsLen(table)
    /\ \A k \in DOMAIN log :
          log[k].ev = "read" => log[k].b \in 0..(BinsLen(log[k].a) - 1)
    /\ base_index <= base_limit
    /\ (OnTable /\ Ended) => base_index = base_limit

\* The traversal has ended after the read, in a dive, of the high side of a
\* split bin, with writers at work.
C18_Witness ==
    /\ OnTable /\ Ended
    /\ base_index = base_limit
    /\ writes >= 3
    /\ \E k \in DOMAIN log :
          log[k].ev = "read" /\ log[k].a >= 2 /\ log[k].b >= BinsLen(1)

\* ------------------------------------------------------------------ C19
\* C19: the stack is read top first.  The bottom frame's table is the table
\* the traversal was constructed on; the length of each frame is the bin
\* count of its table and its index is below that length; the lengths grow
\* strictly from the bottom to the top and the top frame's length is below
\* the bin count of the current table; so the stack is never deeper than the
\* number of generations newer than the construction-time table.
C19_StackShape ==
    /\ stack # <<>> => stack[Len(stack)].table = BaseTable
    /\ \A m \in DOMAIN stack :
          /\ stack[m].length = BinsLen(stack[m].table)
          /\ stack[m].index \in 0..(stack[m].length - 1)
    /\ \A m \in 1..(Len(stack) - 1) : stack[m + 1].length < stack[m].length
    /\ stack # <<>> => (table # 0 /\ Head(stack).length < BinsLen(table))
    /\ Len(stack) <= NumTables - 1

\* Two frames deep in the last table, from a slot other than 0, in a
\* configuration where another marker skips a table.
C19_Witness ==
    /\ Len(stack) = 2
    /\ table = NumTables
    /\ Head(stack).index > 0
    /\ \E i \in DOMAIN bins[1] : bins[1][i] = MovedPtr(3)

TypeOK ==
    /\ pc \in {"build", "idle", "loop", "abort"}
    /\ table \in 0..NumTables
    /\ prev \in 0..Len(nodes)

====
